---- MODULE Spec2Model ----
(***************************************************************************)
(* Model of src/utils/spiderfy.ts (spiderfy, jitterPoints,                 *)
(* duplicatedPoints), of the two generateRandomPoints, of CarlosMockup's   *)
(* processedPoints and of the drag handlers of PegmanContainer of the      *)
(* maplibre dashboard.                                                     *)
(*                                                                         *)
(* JavaScript numbers are IEEE-754 binary floating-point values.  They are *)
(* modelled by a small binary floating-point format with the same rules    *)
(* (round to nearest, ties to even; gradual underflow; signed zero;        *)
(* Infinity and NaN): a finite value is sign * mag * 2^-FracBits where mag *)
(* has at most Precision significant bits.  The format is smaller than a   *)
(* double (53 bits), its rules are the same.                               *)
(*                                                                         *)
(* JavaScript objects are modelled by a heap: a Point object is a          *)
(* reference (an index into heap), an array of points is a sequence of     *)
(* references.                                                             *)
(***************************************************************************)
EXTENDS Integers, Sequences, FiniteSets, TLC

VARIABLES
  heap,     \* heap[ref]: the Point object stored at reference ref
  points,   \* the array passed to the function (a sequence of references)
  given,    \* the Point values of that array when the call was made
  out,      \* the array the function returned (a sequence of references)
  call,     \* the function that was called: "none" before the call
  arg,      \* the number passed as radius / jitter (Zero when there is none)
  variant,  \* the generateRandomPoints that built the array: "duplicates",
            \* "plain", or "none" when the array was not generated
  numberOfPoints,  \* the argument of generateRandomPoints
  loopI,    \* the loop counter i of generateRandomPoints
  genPc,    \* the position of generateRandomPoints: "loop", "pushed1",
            \* "returned"; "none" when the array was not generated
  pegman    \* the PegmanContainer component: its refs and state, the
            \* closure of its subscribed handlers, the map's road colours
            \* and the styles of document.body (a record)

vars == <<heap, points, given, out, call, arg, variant, numberOfPoints, loopI,
          genPc, pegman>>

\* No PegmanContainer is mounted.
NoPegman == [mounted |-> FALSE]

---------------------------------------------------------------------------
(* Bounds of the model *)

\* Longest input array.
MaxLen == 4
\* Significant bits of a number (53 for a double).
Precision == 5
\* The smallest positive number is 2^-FracBits (2^-1074 for a double).
FracBits == 6
\* A magnitude of 2^MaxExp quanta or more overflows to Infinity.
MaxExp == 14

---------------------------------------------------------------------------
(* The number type: IEEE-754 arithmetic, scaled down *)

Pow2(n) == 2 ^ n

Quantum == Pow2(FracBits)

RECURSIVE BitLen(_)
BitLen(n) == IF n = 0 THEN 0 ELSE 1 + BitLen(n \div 2)

NaN == [cls |-> "nan", neg |-> FALSE, mag |-> 0]
Infinity(neg) == [cls |-> "inf", neg |-> neg, mag |-> 0]

\* The number nearest to (-1)^neg * num / den quanta: round to nearest, ties
\* to even, at most Precision significant bits; overflow gives Infinity.
RoundRat(neg, num, den) ==
  LET q    == num \div den
      len  == BitLen(q)
      grid == IF len > Precision THEN Pow2(len - Precision) ELSE 1
      d    == den * grid
      f    == num \div d
      rem  == num - f * d
      up   == 2 * rem > d \/ (2 * rem = d /\ f % 2 = 1)
      m    == (IF up THEN f + 1 ELSE f) * grid
  IN  IF m >= Pow2(MaxExp) THEN Infinity(neg)
      ELSE [cls |-> "fin", neg |-> neg, mag |-> m]

\* The number n / 2^k (a literal of the source, or an array length or index).
Dyadic(neg, n, k) == RoundRat(neg, n * Quantum, Pow2(k))
IntNum(i) == Dyadic(i < 0, IF i < 0 THEN -i ELSE i, 0)
Zero == IntNum(0)
NegZero == [cls |-> "fin", neg |-> TRUE, mag |-> 0]

IsFinite(a) == a.cls = "fin"
IsZero(a) == a.cls = "fin" /\ a.mag = 0

\* a + b
FAdd(a, b) ==
  IF a.cls = "nan" \/ b.cls = "nan" THEN NaN
  ELSE IF a.cls = "inf" /\ b.cls = "inf"
       THEN (IF a.neg = b.neg THEN a ELSE NaN)
  ELSE IF a.cls = "inf" THEN a
  ELSE IF b.cls = "inf" THEN b
  ELSE LET sa == IF a.neg THEN -a.mag ELSE a.mag
           sb == IF b.neg THEN -b.mag ELSE b.mag
           s  == sa + sb
       IN  IF s = 0 THEN (IF a.neg /\ b.neg THEN NegZero ELSE Zero)
           ELSE RoundRat(s < 0, IF s < 0 THEN -s ELSE s, 1)

\* a * b
FMul(a, b) ==
  IF a.cls = "nan" \/ b.cls = "nan" THEN NaN
  ELSE IF a.cls = "inf" \/ b.cls = "inf"
       THEN (IF IsZero(a) \/ IsZero(b) THEN NaN ELSE Infinity(a.neg # b.neg))
  ELSE RoundRat(a.neg # b.neg, a.mag * b.mag, Quantum)

\* a / b
FDiv(a, b) ==
  IF a.cls = "nan" \/ b.cls = "nan" THEN NaN
  ELSE IF a.cls = "inf"
       THEN (IF b.cls = "inf" THEN NaN ELSE Infinity(a.neg # b.neg))
  ELSE IF b.cls = "inf" THEN [cls |-> "fin", neg |-> a.neg # b.neg, mag |-> 0]
  ELSE IF IsZero(b)
       THEN (IF IsZero(a) THEN NaN ELSE Infinity(a.neg # b.neg))
  ELSE RoundRat(a.neg # b.neg, a.mag * Quantum, b.mag)

\* Math.PI: the number nearest to pi (pi = 402.12 / 128).
PI == RoundRat(FALSE, 402 * Quantum, 128)

CosTable ==
  <<
    128, 128, 128, 128, 128, 128, 128, 128, 128, 128, 128, 128, 127, 127, 127, 127, 127, 127,
    127, 127, 126, 126, 126, 126, 126, 126, 125, 125, 125, 125, 125, 124, 124, 124, 124, 123,
    123, 123, 122, 122, 122, 121, 121, 121, 121, 120, 120, 119, 119, 119, 118, 118, 118, 117,
    117, 116, 116, 116, 115, 115, 114, 114, 113, 113, 112, 112, 111, 111, 110, 110, 109, 109,
    108, 108, 107, 107, 106, 106, 105, 104, 104, 103, 103, 102, 101, 101, 100, 100, 99, 98, 98,
    97, 96, 96, 95, 94, 94, 93, 92, 92, 91, 90, 89, 89, 88, 87, 87, 86, 85, 84, 84, 83, 82, 81,
    81, 80, 79, 78, 77, 77, 76, 75, 74, 73, 72, 72, 71, 70, 69, 68, 67, 67, 66, 65, 64, 63, 62,
    61, 61, 60, 59, 58, 57, 56, 55, 54, 53, 52, 52, 51, 50, 49, 48, 47, 46, 45, 44, 43, 42, 41,
    40, 39, 38, 38, 37, 36, 35, 34, 33, 32, 31, 30, 29, 28, 27, 26, 25, 24, 23, 22, 21, 20, 19,
    18, 17, 16, 15, 14, 13, 12, 11, 10, 9, 8, 7, 6, 5, 4, 3, 2, 1, 0, -1, -2, -3, -4, -5, -6,
    -7, -8, -9, -10, -11, -12, -13, -14, -15, -16, -17, -18, -19, -20, -21, -22, -23, -24, -25,
    -26, -27, -28, -29, -30, -31, -32, -33, -34, -35, -35, -36, -37, -38, -39, -40, -41, -42,
    -43, -44, -45, -46, -47, -48, -49, -50, -51, -51, -52, -53, -54, -55, -56, -57, -58, -59,
    -60, -60, -61, -62, -63, -64, -65, -66, -67, -67, -68, -69, -70, -71, -72, -72, -73, -74,
    -75, -76, -76, -77, -78, -79, -80, -80, -81, -82, -83, -83, -84, -85, -86, -86, -87, -88,
    -89, -89, -90, -91, -91, -92, -93, -94, -94, -95, -96, -96, -97, -98, -98, -99, -99, -100,
    -101, -101, -102, -103, -103, -104, -104, -105, -105, -106, -107, -107, -108, -108, -109,
    -109, -110, -110, -111, -111, -112, -112, -113, -113, -114, -114, -115, -115, -115, -116,
    -116, -117, -117, -118, -118, -118, -119, -119, -119, -120, -120, -120, -121, -121, -121,
    -122, -122, -122, -123, -123, -123, -123, -124, -124, -124, -124, -125, -125, -125, -125,
    -126, -126, -126, -126, -126, -126, -127, -127, -127, -127, -127, -127, -127, -127, -128,
    -128, -128, -128, -128, -128, -128, -128, -128, -128, -128, -128, -128, -128, -128, -128,
    -128, -128, -128, -128, -128, -128, -128, -127, -127, -127, -127, -127, -127, -127, -127,
    -126, -126, -126, -126, -126, -126, -125, -125, -125, -125, -125, -124, -124, -124, -124,
    -123, -123, -123, -122, -122, -122, -122, -121, -121, -121, -120, -120, -120, -119, -119,
    -118, -118, -118, -117, -117, -116, -116, -116, -115, -115, -114, -114, -113, -113, -112,
    -112, -111, -111, -110, -110, -109, -109, -108, -108, -107, -107, -106, -106, -105, -104,
    -104, -103, -103, -102, -101, -101, -100, -100, -99, -98, -98, -97, -96, -96, -95, -94,
    -94, -93, -92, -92, -91, -90, -90, -89, -88, -87, -87, -86, -85, -84, -84, -83, -82, -81,
    -81, -80, -79, -78, -77, -77, -76, -75, -74, -73, -73, -72, -71, -70, -69, -68, -68, -67,
    -66, -65, -64, -63, -62, -62, -61, -60, -59, -58, -57, -56, -55, -54, -53, -53, -52, -51,
    -50, -49, -48, -47, -46, -45, -44, -43, -42, -41, -40, -40, -39, -38, -37, -36, -35, -34,
    -33, -32, -31, -30, -29, -28, -27, -26, -25, -24, -23, -22, -21, -20, -19, -18, -17, -16,
    -15, -14, -13, -12, -11, -10, -9, -8, -7, -6, -5, -4, -3, -2, -1, 0, 1, 2, 3, 4, 5, 6, 7,
    8, 9, 10, 11, 12, 13, 14, 15, 16, 17, 18, 19, 20, 21, 22, 23, 24, 25, 26, 27, 28, 29, 30,
    31, 31, 32, 33, 34, 35, 36, 37, 38, 39, 40, 41, 42, 43, 44, 45, 46, 47, 48, 49, 49, 50, 51,
    52, 53, 54, 55, 56, 57, 58, 59, 59, 60, 61, 62, 63, 64, 65, 66, 66, 67, 68, 69, 70, 71, 71,
    72, 73, 74, 75, 76, 76, 77, 78, 79, 80, 80, 81, 82, 83, 83, 84, 85, 86, 86, 87, 88, 89, 89,
    90, 91, 91, 92, 93, 93, 94, 95, 96, 96, 97, 97, 98, 99, 99, 100, 101, 101, 102, 102, 103,
    104, 104, 105, 105, 106, 107, 107, 108, 108, 109, 109, 110, 110, 111, 111, 112, 112, 113,
    113, 114, 114, 115, 115, 115, 116, 116, 117, 117, 117, 118, 118, 119, 119, 119, 120, 120,
    120, 121, 121, 121, 122, 122, 122, 123, 123, 123, 123, 124, 124, 124, 124, 125, 125, 125,
    125, 126, 126, 126, 126, 126, 126, 127, 127, 127, 127, 127, 127, 127, 127, 128, 128, 128,
    128, 128, 128, 128, 128, 128, 128, 128, 128, 128, 128, 128, 128, 128, 128, 128, 128, 128,
    128, 128, 127, 127, 127, 127, 127, 127, 127, 127, 126, 126, 126, 126, 126, 126, 125, 125,
    125
  >>

SinTable ==
  <<
    0, 1, 2, 3, 4, 5, 6, 7, 8, 9, 10, 11, 12, 13, 14, 15, 16, 17, 18, 19, 20, 21, 22, 23, 24,
    25, 26, 27, 28, 29, 30, 31, 32, 33, 34, 35, 36, 36, 37, 38, 39, 40, 41, 42, 43, 44, 45, 46,
    47, 48, 49, 50, 51, 51, 52, 53, 54, 55, 56, 57, 58, 59, 60, 60, 61, 62, 63, 64, 65, 66, 67,
    67, 68, 69, 70, 71, 72, 72, 73, 74, 75, 76, 77, 77, 78, 79, 80, 80, 81, 82, 83, 84, 84, 85,
    86, 87, 87, 88, 89, 89, 90, 91, 92, 92, 93, 94, 94, 95, 96, 96, 97, 98, 98, 99, 100, 100,
    101, 101, 102, 103, 103, 104, 104, 105, 105, 106, 107, 107, 108, 108, 109, 109, 110, 110,
    111, 111, 112, 112, 113, 113, 114, 114, 115, 115, 115, 116, 116, 117, 117, 118, 118, 118,
    119, 119, 119, 120, 120, 120, 121, 121, 121, 122, 122, 122, 123, 123, 123, 123, 124, 124,
    124, 124, 125, 125, 125, 125, 126, 126, 126, 126, 126, 126, 127, 127, 127, 127, 127, 127,
    127, 127, 128, 128, 128, 128, 128, 128, 128, 128, 128, 128, 128, 128, 128, 128, 128, 128,
    128, 128, 128, 128, 128, 128, 128, 127, 127, 127, 127, 127, 127, 127, 127, 126, 126, 126,
    126, 126, 126, 125, 125, 125, 125, 125, 124, 124, 124, 124, 123, 123, 123, 122, 122, 122,
    122, 121, 121, 121, 120, 120, 119, 119, 119, 118, 118, 118, 117, 117, 116, 116, 116, 115,
    115, 114, 114, 113, 113, 112, 112, 111, 111, 110, 110, 109, 109, 108, 108, 107, 107, 106,
    106, 105, 104, 104, 103, 103, 102, 101, 101, 100, 100, 99, 98, 98, 97, 96, 96, 95, 94, 94,
    93, 92, 92, 91, 90, 90, 89, 88, 87, 87, 86, 85, 84, 84, 83, 82, 81, 81, 80, 79, 78, 77, 77,
    76, 75, 74, 73, 73, 72, 71, 70, 69, 68, 68, 67, 66, 65, 64, 63, 62, 61, 61, 60, 59, 58, 57,
    56, 55, 54, 53, 53, 52, 51, 50, 49, 48, 47, 46, 45, 44, 43, 42, 41, 40, 39, 39, 38, 37, 36,
    35, 34, 33, 32, 31, 30, 29, 28, 27, 26, 25, 24, 23, 22, 21, 20, 19, 18, 17, 16, 15, 14, 13,
    12, 11, 10, 9, 8, 7, 6, 5, 4, 3, 2, 1, 0, -1, -2, -3, -4, -5, -6, -7, -8, -9, -10, -11,
    -12, -13, -14, -15, -16, -17, -18, -19, -20, -21, -22, -23, -24, -25, -26, -27, -28, -29,
    -30, -31, -32, -33, -33, -34, -35, -36, -37, -38, -39, -40, -41, -42, -43, -44, -45, -46,
    -47, -48, -49, -50, -50, -51, -52, -53, -54, -55, -56, -57, -58, -59, -59, -60, -61, -62,
    -63, -64, -65, -66, -66, -67, -68, -69, -70, -71, -72, -72, -73, -74, -75, -76, -76, -77,
    -78, -79, -80, -80, -81, -82, -83, -83, -84, -85, -86, -86, -87, -88, -89, -89, -90, -91,
    -91, -92, -93, -94, -94, -95, -96, -96, -97, -98, -98, -99, -99, -100, -101, -101, -102,
    -103, -103, -104, -104, -105, -105, -106, -107, -107, -108, -108, -109, -109, -110, -110,
    -111, -111, -112, -112, -113, -113, -114, -114, -115, -115, -115, -116, -116, -117, -117,
    -118, -118, -118, -119, -119, -119, -120, -120, -120, -121, -121, -121, -122, -122, -122,
    -123, -123, -123, -123, -124, -124, -124, -124, -125, -125, -125, -125, -126, -126, -126,
    -126, -126, -126, -127, -127, -127, -127, -127, -127, -127, -127, -128, -128, -128, -128,
    -128, -128, -128, -128, -128, -128, -128, -128, -128, -128, -128, -128, -128, -128, -128,
    -128, -128, -128, -128, -127, -127, -127, -127, -127, -127, -127, -127, -126, -126, -126,
    -126, -126, -126, -125, -125, -125, -125, -125, -124, -124, -124, -124, -123, -123, -123,
    -122, -122, -122, -122, -121, -121, -121, -120, -120, -120, -119, -119, -118, -118, -118,
    -117, -117, -116, -116, -116, -115, -115, -114, -114, -113, -113, -112, -112, -111, -111,
    -110, -110, -109, -109, -108, -108, -107, -107, -106, -106, -105, -104, -104, -103, -103,
    -102, -102, -101, -100, -100, -99, -98, -98, -97, -96, -96, -95, -94, -94, -93, -92, -92,
    -91, -90, -90, -89, -88, -87, -87, -86, -85, -84, -84, -83, -82, -81, -81, -80, -79, -78,
    -78, -77, -76, -75, -74, -73, -73, -72, -71, -70, -69, -68, -68, -67, -66, -65, -64, -63,
    -62, -62, -61, -60, -59, -58, -57, -56, -55, -54, -54, -53, -52, -51, -50, -49, -48, -47,
    -46, -45, -44, -43, -42, -41, -41, -40, -39, -38, -37, -36, -35, -34, -33, -32, -31, -30,
    -29, -28, -27, -26, -25, -24, -23, -22, -21, -20, -19, -18, -17, -16, -15, -14, -13, -12,
    -11, -10, -9, -8, -7, -6, -5, -4, -3, -2, -1, 0, 1, 2, 3, 4, 5, 6, 7, 8, 9, 10, 11, 12, 13,
    14, 15, 16, 17, 18, 19, 20, 21, 22, 23, 24, 25, 26, 27, 28
  >>

\* Math.cos(a) and Math.sin(a) for 0 <= |a| <= 6.5: the tables hold
\* round(128 * cos(k / 128)) and round(128 * sin(k / 128)) for k = 0 .. 832.
TrigIndex(a) == (a.mag * 128) \div Quantum + 1

Cos(a) ==
  IF a.cls # "fin" THEN NaN
  ELSE LET v == CosTable[TrigIndex(a)]
       IN  RoundRat(v < 0, (IF v < 0 THEN -v ELSE v) * Quantum, 128)

Sin(a) ==
  IF a.cls # "fin" THEN NaN
  ELSE LET v == SinTable[TrigIndex(a)]
           n == (v < 0) # a.neg
       IN  IF v = 0 THEN [cls |-> "fin", neg |-> a.neg, mag |-> 0]
           ELSE RoundRat(n, (IF v < 0 THEN -v ELSE v) * Quantum, 128)

\* String(a), as number-to-string conversion writes it: "NaN", "Infinity",
\* "-Infinity", and for a finite number its sign and digits, where both zeros
\* are written "0".  Distinct finite non-zero numbers have distinct digits.
NumToString(a) ==
  IF a.cls = "nan" THEN [text |-> "NaN", sign |-> "", digits |-> 0]
  ELSE IF a.cls = "inf"
       THEN [text |-> "Infinity", sign |-> IF a.neg THEN "-" ELSE "", digits |-> 0]
  ELSE [text |-> "", sign |-> IF a.neg /\ a.mag # 0 THEN "-" ELSE "",
        digits |-> a.mag]

\* A key made of the longitude alone.
JoinLongitude(gps) == <<NumToString(gps[1]), ",", NumToString(gps[1])>>

\* gps.join(","): the strings of the two components around a comma (no
\* number string holds a comma).
JoinGps(gps) == <<NumToString(gps[1]), ",", NumToString(gps[2])>>

---------------------------------------------------------------------------
(* src/utils/spiderfy.ts *)

\* The Point values read through an array of references.
Deref(hp, pts) == [i \in 1..Len(pts) |-> hp[pts[i]]]

\* points.reduce((sum, point) => sum + point.gps[c], 0), all points but the
\* last one.
RECURSIVE ReduceSumButLast(_, _, _)
ReduceSumButLast(hp, pts, c) ==
  IF Len(pts) <= 1 THEN Zero
  ELSE FAdd(ReduceSumButLast(hp, SubSeq(pts, 1, Len(pts) - 1), c),
            hp[pts[Len(pts) - 1]].gps[c])

\* points.reduce((sum, point) => sum + point.gps[c], 0): from the left,
\* starting at 0.
RECURSIVE ReduceSum(_, _, _)
ReduceSum(hp, pts, c) ==
  IF pts = <<>> THEN Zero
  ELSE FAdd(ReduceSum(hp, SubSeq(pts, 1, Len(pts) - 1), c),
            hp[pts[Len(pts)]].gps[c])

\* centerX (c = 1) and centerY (c = 2).
center(hp, pts, c) == FDiv(ReduceSum(hp, pts, c), IntNum(Len(pts)))

\* angle = index * angleIncrement, angleIncrement = (2 * Math.PI) / length
angleAt(index, length) ==
  FMul(IntNum(index), FDiv(FMul(IntNum(2), PI), IntNum(length)))

\* r = radius + index: the increment does not depend on the radius.
rAtPlusIndex(index, length, radius) == FAdd(radius, IntNum(index))

\* r = radius: every point on one circle.
rAtConstant(index, length, radius) == radius

\* r = radius + index * radiusIncrement, radiusIncrement = radius / length
rAt(index, length, radius) ==
  FAdd(radius, FMul(IntNum(index), FDiv(radius, IntNum(length))))

\* [x, y] = the centre itself: the offsets are left out.
gpsAtCentre(centerX, centerY, r, angle) == <<centerX, centerY>>

\* [x, y], x = centerX + r * Math.cos(angle), y = centerY + r * Math.sin(angle)
gpsAt(centerX, centerY, r, angle) ==
  <<FAdd(centerX, FMul(r, Cos(angle))), FAdd(centerY, FMul(r, Sin(angle)))>>

\* { gps }: an object without the fields of point (they read as undefined).
spreadGpsOnly(point, gps) ==
  [serialNumber |-> 0, station |-> "undefined", gps |-> gps,
   status |-> "undefined", brand |-> "undefined", model |-> "undefined",
   installationDate |-> "undefined"]

\* { ...point, gps }: a new object with the fields of point and another gps.
spread(point, gps) == [point EXCEPT !.gps = gps]

\* spiderfy that leaves out the last point of the array.
spiderfyDropLast(hp, pts, radius) ==
  [k \in 1..(Len(pts) - 1) |->
    spread(hp[pts[k]],
           gpsAt(center(hp, pts, 1), center(hp, pts, 2),
                 rAt(k - 1, Len(pts), radius), angleAt(k - 1, Len(pts))))]

\* The slot of a point is chosen by its serialNumber, not by its index.
spiderfyBySerial(hp, pts, radius) ==
  [k \in 1..Len(pts) |->
    spread(hp[pts[k]],
           gpsAt(center(hp, pts, 1), center(hp, pts, 2),
                 rAt(hp[pts[k]].serialNumber - 1, Len(pts), radius),
                 angleAt(hp[pts[k]].serialNumber - 1, Len(pts))))]

\* Every point is laid out around its own coordinates.
spiderfyAroundOwn(hp, pts, radius) ==
  [k \in 1..Len(pts) |->
    spread(hp[pts[k]],
           gpsAt(hp[pts[k]].gps[1], hp[pts[k]].gps[2],
                 rAt(k - 1, Len(pts), radius), angleAt(k - 1, Len(pts))))]

\* No test of the length, and the centre is returned as a first point.
spiderfyWithCentre(hp, pts, radius) ==
  <<[gps |-> <<center(hp, pts, 1), center(hp, pts, 2)>>]>>
    \o [k \in 1..Len(pts) |->
         spread(hp[pts[k]],
                gpsAt(center(hp, pts, 1), center(hp, pts, 2),
                      rAt(k - 1, Len(pts), radius), angleAt(k - 1, Len(pts))))]

\* The objects spiderfy pushes to spiderfiedPoints, in order.
spiderfy(hp, pts, radius) ==
  IF Len(pts) = 0 THEN <<>>
  ELSE
    LET centerX == center(hp, pts, 1)
        centerY == center(hp, pts, 2)
    IN  [k \in 1..Len(pts) |->
          LET angle == angleAt(k - 1, Len(pts))
              r     == rAt(k - 1, Len(pts), radius)
          IN  spread(hp[pts[k]], gpsAt(centerX, centerY, r, angle))]

\* The heap once a point of the array itself has been given the new gps
\* (point.gps = [x, y]) before the copies are made.
spiderfyHeapInPlace(hp, pts, radius) ==
  [ref \in 1..Len(hp) |->
    IF \E k \in 1..Len(pts) : pts[k] = ref
    THEN spiderfy(hp, pts, radius)[CHOOSE k \in 1..Len(pts) : pts[k] = ref]
    ELSE hp[ref]] \o spiderfy(hp, pts, radius)

\* The heap once spiderfy has returned: the objects it pushed are new ones,
\* allocated after those that exist, and no existing object is written.
spiderfyHeap(hp, pts, radius) == hp \o spiderfy(hp, pts, radius)

\* coord + jitter
jitterCoordAdd(coord, jitter) == FAdd(coord, jitter)

\* coord * jitter
jitterCoord(coord, jitter) == FMul(coord, jitter)

\* The objects jitterPoints returns, in order: { ...point, gps: jitteredGps }
\* where jitteredGps = point.gps.map((coord) => coord * jitter).
jitterPoints(hp, pts, jitter) ==
  [k \in 1..Len(pts) |->
    LET point == hp[pts[k]]
        jitteredGps == [c \in 1..Len(point.gps) |-> jitterCoord(point.gps[c], jitter)]
    IN  spread(point, jitteredGps)]

\* The heap once jitterPoints has returned: map() made a new array of new
\* objects.
jitterPointsHeap(hp, pts, jitter) == hp \o jitterPoints(hp, pts, jitter)

\* duplicatePointsMap: an object used as a map from key to array of points.
\* It is modelled by its properties in insertion order.
HasKey(map, key) == \E i \in 1..Len(map) : map[i].key = key

KeyIndex(map, key) == CHOOSE i \in 1..Len(map) : map[i].key = key

\* One turn of the first forEach with unshift() for push(): the point goes to
\* the front of its key's array.
AddPointFront(map, key, ref) ==
  LET created == IF ~HasKey(map, key)
                 THEN Append(map, [key |-> key, value |-> <<>>])
                 ELSE map
  IN  [created EXCEPT ![KeyIndex(created, key)].value = <<ref>> \o @]

\* One turn of the first forEach: create the key's array if there is none,
\* then push the point to it.
AddPoint(map, key, ref) ==
  LET created == IF ~HasKey(map, key)
                 THEN Append(map, [key |-> key, value |-> <<>>])
                 ELSE map
  IN  [created EXCEPT ![KeyIndex(created, key)].value = Append(@, ref)]

RECURSIVE GroupByKey(_, _)
GroupByKey(hp, pts) ==
  IF pts = <<>> THEN <<>>
  ELSE LET ref == pts[Len(pts)]
       IN  AddPoint(GroupByKey(hp, SubSeq(pts, 1, Len(pts) - 1)),
                    JoinGps(hp[ref].gps), ref)

\* The values in the reverse of the property order.
ObjectValuesReversed(map) == [i \in 1..Len(map) |-> map[Len(map) + 1 - i].value]

\* Object.values(map): the values in property order.  Every key holds a
\* comma, so none is an array index and the order is insertion order.
ObjectValues(map) == [i \in 1..Len(map) |-> map[i].value]

\* arrays.flat()
RECURSIVE Flat(_)
Flat(arrays) ==
  IF arrays = <<>> THEN <<>> ELSE Head(arrays) \o Flat(Tail(arrays))

\* The array duplicatedPoints returns: references to the points given.
duplicatedPoints(hp, pts) ==
  LET duplicatePointsMap == GroupByKey(hp, pts)
      IsDuplicated(ref) ==
        LET key == JoinGps(hp[ref].gps)
        IN  Len(duplicatePointsMap[KeyIndex(duplicatePointsMap, key)].value) > 1
  IN  SelectSeq(Flat(ObjectValues(duplicatePointsMap)), IsDuplicated)

---------------------------------------------------------------------------
(* Inputs *)

\* The fields of a point other than gps: two different sets of them.
PayloadA ==
  [serialNumber |-> 1, station |-> "Station-1", status |-> "green",
   brand |-> "Siemens", model |-> "SensorPro",
   installationDate |-> "2020-01-01"]

PayloadB ==
  [serialNumber |-> 2, station |-> "Station-2", status |-> "red",
   brand |-> "ABB", model |-> "DataLogger",
   installationDate |-> "2021-06-15"]

MkPoint(payload, gps) ==
  [serialNumber |-> payload.serialNumber, station |-> payload.station,
   gps |-> gps, status |-> payload.status, brand |-> payload.brand,
   model |-> payload.model, installationDate |-> payload.installationDate]

\* The points an input array is made of, gps = [long, lat]: two points at
\* the origin whose longitudes are the two zeros, two points that share one
\* component with the origin, and a point far from it.
PointPool ==
  { MkPoint(PayloadA, <<Zero, Zero>>),
    MkPoint(PayloadB, <<NegZero, Zero>>),
    MkPoint(PayloadA, <<IntNum(1), Zero>>),
    MkPoint(PayloadB, <<Zero, IntNum(1)>>),
    MkPoint(PayloadB, <<IntNum(32), IntNum(32)>>) }

\* radius: 0, the smallest positive number of the format, 10, and the
\* default 30.
DefaultRadius == IntNum(30)
Radii == { Zero, Dyadic(FALSE, 1, 6), IntNum(10), DefaultRadius }

\* jitter: the default (0.00001 in the source: here the smallest factor the
\* format holds), and 3.
DefaultJitter == Dyadic(FALSE, 1, 6)
Jitters == { DefaultJitter, IntNum(3) }

---------------------------------------------------------------------------
(* The state machine: one call of one function on one input *)

Refs(n) == [i \in 1..n |-> i]

Init ==
  /\ \E n \in 0..MaxLen : heap \in [1..n -> PointPool]
  /\ points = Refs(Len(heap))
  /\ given = heap
  /\ out = <<>>
  /\ call = "none"
  /\ arg = Zero
  /\ variant = "none"
  /\ numberOfPoints = 0
  /\ loopI = 0
  /\ genPc = "none"
  /\ pegman = NoPegman

CallSpiderfy ==
  /\ call = "none"
  /\ \E radius \in Radii :
       /\ heap' = spiderfyHeap(heap, points, radius)
       /\ out' = [k \in 1..Len(spiderfy(heap, points, radius)) |-> Len(heap) + k]
       /\ arg' = radius
  /\ call' = "spiderfy"
  /\ UNCHANGED <<points, given, variant, numberOfPoints, loopI, genPc, pegman>>

CallJitterPoints ==
  /\ call = "none"
  /\ \E jitter \in Jitters :
       /\ heap' = jitterPointsHeap(heap, points, jitter)
       /\ out' = [k \in 1..Len(jitterPoints(heap, points, jitter)) |-> Len(heap) + k]
       /\ arg' = jitter
  /\ call' = "jitterPoints"
  /\ UNCHANGED <<points, given, variant, numberOfPoints, loopI, genPc, pegman>>

CallDuplicatedPoints ==
  /\ call = "none"
  /\ genPc \in {"none", "returned"}
  /\ out' = duplicatedPoints(heap, points)
  /\ call' = "duplicatedPoints"
  /\ UNCHANGED <<heap, points, given, arg, variant, numberOfPoints, loopI, genPc, pegman>>

Next == CallSpiderfy \/ CallJitterPoints \/ CallDuplicatedPoints

Spec == Init /\ [][Next]_vars

---------------------------------------------------------------------------
(* The same calls with the numbers the type number also holds: NaN and the *)
(* infinities, as radius and as coordinates.                               *)
(***************************************************************************)

PointPoolAny ==
  { MkPoint(PayloadA, <<Zero, Zero>>),
    MkPoint(PayloadB, <<IntNum(1), Zero>>),
    MkPoint(PayloadA, <<NaN, Zero>>),
    MkPoint(PayloadB, <<Zero, Infinity(FALSE)>>) }

RadiiAny == { IntNum(10), NaN, Infinity(FALSE), Infinity(TRUE) }

InitAny ==
  /\ \E n \in 0..MaxLen : heap \in [1..n -> PointPoolAny]
  /\ points = Refs(Len(heap))
  /\ given = heap
  /\ out = <<>>
  /\ call = "none"
  /\ arg = Zero
  /\ variant = "none"
  /\ numberOfPoints = 0
  /\ loopI = 0
  /\ genPc = "none"
  /\ pegman = NoPegman

CallSpiderfyAny ==
  /\ call = "none"
  /\ \E radius \in RadiiAny :
       /\ heap' = spiderfyHeap(heap, points, radius)
       /\ out' = [k \in 1..Len(spiderfy(heap, points, radius)) |-> Len(heap) + k]
       /\ arg' = radius
  /\ call' = "spiderfy"
  /\ UNCHANGED <<points, given, variant, numberOfPoints, loopI, genPc, pegman>>

NextAny == CallSpiderfyAny \/ CallDuplicatedPoints

SpecAny == InitAny /\ [][NextAny]_vars

---------------------------------------------------------------------------
(* spiderfy alone, for arrays of up to MaxShortLen points: the properties  *)
(* that compare its results for two arrays are checked here.               *)
(***************************************************************************)

MaxShortLen == 3

\* The points of PointPool and one whose coordinates, 11/32, use more bits
\* of the format: three times 11/32 is not a number of the format.
PointPoolShort ==
  PointPool \cup { MkPoint(PayloadA, <<Dyadic(FALSE, 11, 5), Dyadic(FALSE, 11, 5)>>) }

InitShort ==
  /\ \E n \in 0..MaxShortLen : heap \in [1..n -> PointPoolShort]
  /\ points = Refs(Len(heap))
  /\ given = heap
  /\ out = <<>>
  /\ call = "none"
  /\ arg = Zero
  /\ variant = "none"
  /\ numberOfPoints = 0
  /\ loopI = 0
  /\ genPc = "none"
  /\ pegman = NoPegman

NextShort == CallSpiderfy

SpecShort == InitShort /\ [][NextShort]_vars

---------------------------------------------------------------------------
(* generateRandomPoints: the variant that appends two duplicated points    *)
(* (randomInRange with "+ 1") and the plain variant                        *)
(*                                                                         *)
(* generateCoordinates rounds to six decimals, so the coordinates are      *)
(* held in millionths of a degree and randomInRange is computed exactly:   *)
(* the rounding error of a double is ten orders of magnitude below the     *)
(* sixth decimal.                                                          *)
(***************************************************************************)

\* toFixed(6): the numbers of a decimal unit.
Million == 10 ^ 6

\* MURCIA_COORDINATES, in millionths of a degree.
latMin == 37500000
latMax == 38200000
lonMin == -1600000
lonMax == -800000

STATUS_VALUES == <<"green", "red", "yellow">>
BRANDS == <<"Siemens", "ABB", "Schneider", "General Electric", "Honeywell">>
MODELS == <<"SensorPro", "DataLogger", "SmartMeter", "IoT-Device", "Monitor">>

\* A result of Math.random(), a number r with 0 <= r < 1, held as
\* whole + num / den: 0, 1/2, and the largest one, just below 1.
RandomZero == [whole |-> 0, num |-> 0, den |-> 1]
RandomHalf == [whole |-> 0, num |-> 1, den |-> 2]
RandomTop  == [whole |-> 1, num |-> -1, den |-> Pow2(24)]
RandomOutcomes == {RandomZero, RandomHalf, RandomTop}

\* The results taken for the calls of Math.random() that choose brand,
\* model and installationDate.
AuxOutcomes == {RandomZero}

\* Math.random() * (max - min + 1) + min, as int + num / den millionths.
randomInRangePlusOne(random, min, max) ==
  [int |-> random.whole * (max - min + Million) + min,
   num |-> random.num * (max - min + Million),
   den |-> random.den]

\* The draw is added to max instead of min.
randomInRangeFromMax(random, min, max) ==
  [int |-> random.whole * (max - min) + max,
   num |-> random.num * (max - min),
   den |-> random.den]

\* Math.random() * (max - min) + min, as int + num / den millionths.
randomInRange(random, min, max) ==
  [int |-> random.whole * (max - min) + min,
   num |-> random.num * (max - min),
   den |-> random.den]

\* parseFloat(x.toFixed(6)): the multiple of a millionth nearest to x, the
\* one of larger magnitude when two are as near.
ToFixed6(x) ==
  LET q    == x.num \div x.den
      rem  == x.num - q * x.den
      low  == x.int + q
  IN  IF 2 * rem > x.den THEN low + 1
      ELSE IF 2 * rem < x.den THEN low
      ELSE IF low >= 0 THEN low + 1 ELSE low

\* Math.ceil(Math.random() * length)
RandomIndexCeil(random, length) ==
  random.whole * length - ((-(random.num * length)) \div random.den)

\* Math.floor(Math.random() * length)
RandomIndex(random, length) ==
  random.whole * length + (random.num * length) \div random.den

\* array[index], indices from 0: undefined outside the array.
At(array, index) ==
  IF index + 1 \in DOMAIN array THEN array[index + 1] ELSE "undefined"

randomStatus(random) == At(STATUS_VALUES, RandomIndex(random, Len(STATUS_VALUES)))
randomBrand(random) == At(BRANDS, RandomIndex(random, Len(BRANDS)))
randomModel(random) == At(MODELS, RandomIndex(random, Len(MODELS)))

\* randomDate(): a day between 2020-01-01 and now (here 2026-11-02).
randomDate(random) ==
  IF random = RandomZero THEN "2020-01-01"
  ELSE IF random = RandomHalf THEN "2023-06-02"
  ELSE "2026-11-02"

\* A number with six decimals, held by its count of millionths.  The
\* functions applied to generated points write and compare such numbers,
\* they do not compute with them.
Millionths(c) ==
  [cls |-> "fin", neg |-> c < 0, mag |-> IF c < 0 THEN -c ELSE c]

\* generateCoordinates of the variant with duplicated points: [lon, lat].
generateCoordinatesPlusOne(randomLat, randomLon) ==
  LET lat == randomInRangePlusOne(randomLat, latMin, latMax)
      lon == randomInRangePlusOne(randomLon, lonMin, lonMax)
  IN  <<Millionths(ToFixed6(lon)), Millionths(ToFixed6(lat))>>

\* generateCoordinates of the plain variant: [lon, lat].
generateCoordinates(randomLat, randomLon) ==
  LET lat == randomInRange(randomLat, latMin, latMax)
      lon == randomInRange(randomLon, lonMin, lonMax)
  IN  <<Millionths(ToFixed6(lon)), Millionths(ToFixed6(lat))>>

\* `Station-${n}`
StationName(n) == <<"Station-", n>>

\* The point the loop of the variant with duplicated points pushes at i.
RandomPointFull(index, gps, status, brand, model, date) ==
  [serialNumber |-> index + 1, station |-> StationName(index + 1),
   gps |-> gps, status |-> status, brand |-> brand, model |-> model,
   installationDate |-> date]

\* The serial numbers start at 0.
RandomPointPlainFromZero(index, gps, status) ==
  [serialNumber |-> index, station |-> StationName(index + 1),
   gps |-> gps, status |-> status]

\* The point the loop of the plain variant pushes at i.
RandomPointPlain(index, gps, status) ==
  [serialNumber |-> index + 1, station |-> StationName(index + 1),
   gps |-> gps, status |-> status]

\* gps: [-1.1309, 37.9854]
DuplicatedGps == <<Millionths(-1130900), Millionths(37985400)>>

\* The first duplicated point repeats the last serial number.
DuplicatedPoint1SerialN(n, brand, model, date) ==
  [serialNumber |-> n, station |-> "Station-duplicated-1",
   status |-> "green", gps |-> DuplicatedGps, brand |-> brand,
   model |-> model, installationDate |-> date]

\* The first point pushed after the loop.
DuplicatedPoint1(n, brand, model, date) ==
  [serialNumber |-> n + 1, station |-> "Station-duplicated-1",
   status |-> "green", gps |-> DuplicatedGps, brand |-> brand,
   model |-> model, installationDate |-> date]

\* The second duplicated point lies a millionth of a degree away.
DuplicatedPoint2Nearby(n, brand, model, date) ==
  [serialNumber |-> n + 2, station |-> "Station-duplicated-2",
   status |-> "yellow",
   gps |-> <<Millionths(-1130901), Millionths(37985400)>>, brand |-> brand,
   model |-> model, installationDate |-> date]

\* The second point pushed after the loop.
DuplicatedPoint2(n, brand, model, date) ==
  [serialNumber |-> n + 2, station |-> "Station-duplicated-2",
   status |-> "yellow", gps |-> DuplicatedGps, brand |-> brand,
   model |-> model, installationDate |-> date]

---------------------------------------------------------------------------
(* generateRandomPoints as a state machine: it builds the array points.    *)
(***************************************************************************)

\* The largest magnitude of the argument numberOfPoints.
MaxCount == 2

\* points.push(point)
Push(point) ==
  /\ heap' = Append(heap, point)
  /\ points' = Append(points, Len(heap) + 1)
  /\ given' = Append(given, point)

InitGen ==
  /\ variant \in {"duplicates", "plain"}
  /\ numberOfPoints \in (-MaxCount)..MaxCount
  /\ loopI = 0
  /\ genPc = "loop"
  /\ pegman = NoPegman
  /\ heap = <<>>
  /\ points = <<>>
  /\ given = <<>>
  /\ out = <<>>
  /\ call = "none"
  /\ arg = Zero

\* One turn of the loop of the variant with duplicated points.
DuplicatesLoop ==
  /\ variant = "duplicates"
  /\ genPc = "loop"
  /\ loopI < numberOfPoints
  /\ \E randomLat \in RandomOutcomes, randomLon \in RandomOutcomes,
        forStatus \in RandomOutcomes, forBrand \in AuxOutcomes,
        forModel \in AuxOutcomes, forDate \in AuxOutcomes :
       Push(RandomPointFull(loopI,
                            generateCoordinatesPlusOne(randomLat, randomLon),
                            randomStatus(forStatus), randomBrand(forBrand),
                            randomModel(forModel), randomDate(forDate)))
  /\ loopI' = loopI + 1
  /\ UNCHANGED <<out, call, arg, variant, numberOfPoints, genPc, pegman>>

\* The loop is over: the first duplicated point is pushed.
DuplicatesPush1 ==
  /\ variant = "duplicates"
  /\ genPc = "loop"
  /\ ~(loopI < numberOfPoints)
  /\ \E forBrand \in AuxOutcomes, forModel \in AuxOutcomes,
        forDate \in AuxOutcomes :
       Push(DuplicatedPoint1(numberOfPoints, randomBrand(forBrand),
                             randomModel(forModel), randomDate(forDate)))
  /\ genPc' = "pushed1"
  /\ UNCHANGED <<out, call, arg, variant, numberOfPoints, loopI, pegman>>

\* The second duplicated point is pushed and the array is returned.
DuplicatesPush2 ==
  /\ variant = "duplicates"
  /\ genPc = "pushed1"
  /\ \E forBrand \in AuxOutcomes, forModel \in AuxOutcomes,
        forDate \in AuxOutcomes :
       Push(DuplicatedPoint2(numberOfPoints, randomBrand(forBrand),
                             randomModel(forModel), randomDate(forDate)))
  /\ genPc' = "returned"
  /\ UNCHANGED <<out, call, arg, variant, numberOfPoints, loopI, pegman>>

\* One turn of the loop of the plain variant.
PlainLoop ==
  /\ variant = "plain"
  /\ genPc = "loop"
  /\ loopI < numberOfPoints
  /\ \E randomLat \in RandomOutcomes, randomLon \in RandomOutcomes,
        forStatus \in RandomOutcomes :
       Push(RandomPointPlain(loopI, generateCoordinates(randomLat, randomLon),
                             randomStatus(forStatus)))
  /\ loopI' = loopI + 1
  /\ UNCHANGED <<out, call, arg, variant, numberOfPoints, genPc, pegman>>

\* The loop is over: the plain variant returns the array.
PlainReturn ==
  /\ variant = "plain"
  /\ genPc = "loop"
  /\ ~(loopI < numberOfPoints)
  /\ genPc' = "returned"
  /\ UNCHANGED <<heap, points, given, out, call, arg, variant,
                 numberOfPoints, loopI, pegman>>

\* The generator runs, then duplicatedPoints is called with its array.
NextGen ==
  \/ DuplicatesLoop
  \/ DuplicatesPush1
  \/ DuplicatesPush2
  \/ PlainLoop
  \/ PlainReturn
  \/ CallDuplicatedPoints

SpecGen == InitGen /\ [][NextGen]_vars

---------------------------------------------------------------------------
(* pages/CarlosMockup: processedPoints                                     *)
(*                                                                         *)
(* rawPoints is JSON data: longitude and latitude are numbers or null,     *)
(* Timestamp is a string or null.                                          *)
(***************************************************************************)

\* null, where a number may stand.
Null == [cls |-> "null", neg |-> FALSE, mag |-> 0]

\* null, where a Timestamp string may stand.
NullTimestamp == "<null>"

\* x !== 0 for a number or null: both zeros are equal to 0.
NotStrictlyZero(x) == ~IsZero(x)

\* `${x}`: a number as String writes it, null as "null".
TemplateString(x) ==
  IF x.cls = "null" THEN [text |-> "null", sign |-> "", digits |-> 0]
  ELSE NumToString(x)

\* The test of the first filter.
IsValidRaw(p) ==
  /\ NotStrictlyZero(p.longitude)
  /\ NotStrictlyZero(p.latitude)
  /\ p.Timestamp # ""
  /\ p.Timestamp # NullTimestamp

\* The object map makes of the raw point p at the index index.
MappedPoint(p, index) ==
  [id |-> index, coordinates |-> <<p.longitude, p.latitude>>,
   longitude |-> p.longitude, latitude |-> p.latitude,
   timestamp |-> p.Timestamp, gnss |-> p.gnss, tag |-> p.entityName]

\* validPoints: the raw points that pass the filter, mapped with the index
\* each has among them (from 0).
validPoints(raw) ==
  LET passed == SelectSeq(raw, IsValidRaw)
  IN  [k \in 1..Len(passed) |-> MappedPoint(passed[k], k - 1)]

\* `${point.longitude}-${point.latitude}`.  A hyphen of a number string is
\* a leading sign or follows the e of an exponent, so the two number strings
\* can be read back from the key: it is held as its three parts.
PointKey(point) ==
  <<TemplateString(point.longitude), "-", TemplateString(point.latitude)>>

\* The filter with the Set seen, from its state before a point to the
\* points kept.
RECURSIVE FilterSeen(_, _)
FilterSeen(valid, seen) ==
  IF valid = <<>> THEN <<>>
  ELSE IF PointKey(Head(valid)) \in seen
       THEN FilterSeen(Tail(valid), seen)
       ELSE <<Head(valid)>>
              \o FilterSeen(Tail(valid), seen \cup {PointKey(Head(valid))})

\* uniquePoints
uniquePoints(valid) == FilterSeen(valid, {})

\* The ids of validPoints are kept.
reassignIdsNot(unique) == unique

\* uniquePoints.map((point, index) => ({...point, id: index}))
reassignIds(unique) ==
  [k \in 1..Len(unique) |-> [unique[k] EXCEPT !.id = k - 1]]

\* processedPoints
processedPoints(raw) == reassignIds(uniquePoints(validPoints(raw)))

\* Raw points: tPoint objects.
RawPoint(name, lon, lat, timestamp) ==
  [entityName |-> name, longitude |-> lon, latitude |-> lat,
   gnss |-> "1.5", Timestamp |-> timestamp]

RawPool ==
  { RawPoint("A", IntNum(1), IntNum(2), "2025-01-01 10:00:00"),
    RawPoint("B", IntNum(1), IntNum(2), "2025-01-01 10:00:05"),
    RawPoint("C", IntNum(1), IntNum(2), NullTimestamp),
    RawPoint("D", IntNum(2), IntNum(1), "2025-01-01 10:00:10"),
    RawPoint("E", NegZero, IntNum(2), "2025-01-01 10:00:15"),
    RawPoint("F", Null, IntNum(2), "2025-01-01 10:00:20"),
    RawPoint("G", IntNum(2), IntNum(1), "") }

\* The largest number of raw points.
MaxRaw == 4

\* rawPoints is the imported array; heap holds its objects.
InitCarlos ==
  /\ \E n \in 0..MaxRaw : heap \in [1..n -> RawPool]
  /\ points = Refs(Len(heap))
  /\ given = heap
  /\ out = <<>>
  /\ call = "none"
  /\ arg = Zero
  /\ variant = "none"
  /\ numberOfPoints = 0
  /\ loopI = 0
  /\ genPc = "none"
  /\ pegman = NoPegman

\* The useMemo callback of processedPoints runs (once: its dependency
\* list is empty); the objects it makes are new ones.
ComputeProcessedPoints ==
  /\ call = "none"
  /\ heap' = heap \o processedPoints(Deref(heap, points))
  /\ out' = [k \in 1..Len(processedPoints(Deref(heap, points))) |-> Len(heap) + k]
  /\ call' = "processedPoints"
  /\ UNCHANGED <<points, given, arg, variant, numberOfPoints, loopI, genPc, pegman>>

NextCarlos == ComputeProcessedPoints

SpecCarlos == InitCarlos /\ [][NextCarlos]_vars

---------------------------------------------------------------------------
(* PegmanContainer: the handlers its effect subscribes, the effect's       *)
(* cleanup, and the two functions that change the road colours.            *)
(*                                                                         *)
(* The handlers are closures of the render in which the effect last ran:   *)
(* they read the isDraggingOutside of that render.  The effect runs again  *)
(* (cleanup, then a new subscription) after a render in which              *)
(* isDraggingOutside differs from the one it ran with; that render comes   *)
(* some time after setIsDraggingOutside, and events may be handled before  *)
(* it.  The rotation, the animations and the inactivity timer of the       *)
(* pegman element do not touch the state modelled here and are left out.   *)
(***************************************************************************)

\* The largest number of mousedown events.
MaxDrags == 2

\* Where the pointer is at an event: two places on the map canvas, one off.
Positions == {"onMapA", "onMapB", "offMap"}

\* Values of line-color; "undefined" is what getPaintProperty returns for a
\* layer whose style sets no line-color.
HighlightColor == "#00aabd"

\* mapInstance.getStyle().layers
StyleLayers ==
  { [id |-> "road-primary", type |-> "line"],
    [id |-> "highway-minor", type |-> "line"],
    [id |-> "road-label", type |-> "symbol"],
    [id |-> "waterway", type |-> "line"] }

LayerIds == { layer.id : layer \in StyleLayers }

\* layerId.includes("road") || ... || layerId.includes("tertiary"), for the
\* ids of StyleLayers.
HasRoadName(layerId) == layerId \in {"road-primary", "highway-minor", "road-label"}

\* roadLayers: the ids of the layers the filter lets through.
roadLayers ==
  { layer.id : layer \in { l \in StyleLayers : l.type = "line" /\ HasRoadName(l.id) } }

\* isWithinMapBounds(clientX, clientY), the canvas being in the document.
isWithinMapBounds(position) == position \in {"onMapA", "onMapB"}

\* screenToMapCoordinates: null without a map instance, else the
\* coordinates unproject gives for the position.
screenToMapCoordinates(position, mapInstance) ==
  IF mapInstance = "null" THEN "null" ELSE "lngLat at " \o position

\* The styles of document.body the handlers write.
BodyDragging == [userSelect |-> "none", cursor |-> "grabbing", pointerEvents |-> "none"]
BodyCleared == [userSelect |-> "", cursor |-> "", pointerEvents |-> ""]

\* restoreOriginalRoadColors
restoreOriginalRoadColors(p, styleLoaded) ==
  IF p.mapInstance = "null" \/ ~styleLoaded THEN p
  ELSE [p EXCEPT
          !.lineColor = [id \in LayerIds |->
                           IF id \in DOMAIN p.originalRoadColorsRef
                           THEN p.originalRoadColorsRef[id]
                           ELSE p.lineColor[id]],
          !.originalRoadColorsRef = [id \in {} |-> ""]]

\* highlightRoadsForDropping
highlightRoadsForDropping(p, styleLoaded) ==
  IF p.mapInstance = "null" \/ ~styleLoaded THEN p
  ELSE [p EXCEPT
          !.originalRoadColorsRef =
             [id \in { l \in roadLayers : p.lineColor[l] # "undefined" } |->
                p.lineColor[id]],
          !.lineColor = [id \in LayerIds |->
                           IF id \in roadLayers THEN HighlightColor
                           ELSE p.lineColor[id]]]

\* onMouseDown
onMouseDown(p, styleLoaded) ==
  [highlightRoadsForDropping(p, styleLoaded) EXCEPT
     !.isDraggingRef = TRUE,
     !.pegmanState = "dragging",
     !.body = BodyDragging,
     !.pegmanPointerEvents = "auto",
     !.downs = @ + 1,
     !.dragEnded = FALSE,
     !.dropped = <<>>]

\* onMouseMove, while dragging
onMouseMove(p, position) ==
  [p EXCEPT !.isDraggingOutside = isWithinMapBounds(position)]

\* onMouseUp, while dragging.  The test of isDraggingOutside reads the
\* closure; seenOnMap and releasedAt record what the latest mousemove set
\* and where the pointer was released.
onMouseUp(p, position, styleLoaded) ==
  LET coordinates == screenToMapCoordinates(position, p.mapInstance)
  IN  [restoreOriginalRoadColors(p, styleLoaded) EXCEPT
         !.isDraggingRef = FALSE,
         !.isDraggingOutside = FALSE,
         !.body = BodyCleared,
         !.pegmanPointerEvents = "",
         !.dropped = IF p.closure.isDraggingOutside /\ coordinates # "null"
                     THEN Append(@, coordinates) ELSE @,
         !.pegmanState = "static",
         !.dragEnded = TRUE,
         !.seenOnMap = p.isDraggingOutside,
         !.releasedAt = position]

\* The cleanup function of the effect.
cleanup(p) == [p EXCEPT !.body = BodyCleared]

\* The component after its first render and effect.
Mounted(mapInstance, colors) ==
  [mounted |-> TRUE,
   mapInstance |-> mapInstance,
   isDraggingRef |-> FALSE,
   pegmanState |-> "static",
   isDraggingOutside |-> FALSE,
   closure |-> [isDraggingOutside |-> FALSE],
   originalRoadColorsRef |-> [id \in {} |-> ""],
   lineColor |-> colors,
   colorsBefore |-> colors,
   body |-> BodyCleared,
   pegmanPointerEvents |-> "",
   downs |-> 0,
   dragEnded |-> FALSE,
   dropped |-> <<>>,
   seenOnMap |-> FALSE,
   releasedAt |-> "offMap"]

\* The line-color of the layers before the first mousedown: road-primary
\* has one or none.
StyleColors ==
  { [id \in LayerIds |->
       IF id = "road-primary" THEN c
       ELSE IF id = "highway-minor" THEN "#ffcc00"
       ELSE IF id = "waterway" THEN "#0000ff"
       ELSE "undefined"] : c \in {"#ffffff", "undefined"} }

InitPegman ==
  /\ \E mapInstance \in {"map", "null"}, colors \in StyleColors :
       pegman = Mounted(mapInstance, colors)
  /\ heap = <<>>
  /\ points = <<>>
  /\ given = <<>>
  /\ out = <<>>
  /\ call = "none"
  /\ arg = Zero
  /\ variant = "none"
  /\ numberOfPoints = 0
  /\ loopI = 0
  /\ genPc = "none"

Others == <<heap, points, given, out, call, arg, variant, numberOfPoints, loopI, genPc>>

\* mousedown on the pegman element
MouseDown ==
  /\ pegman.mounted
  /\ pegman.downs < MaxDrags
  /\ \E styleLoaded \in BOOLEAN : pegman' = onMouseDown(pegman, styleLoaded)
  /\ UNCHANGED Others

\* mousemove on the document
MouseMove ==
  /\ pegman.mounted
  /\ pegman.isDraggingRef
  /\ \E position \in Positions : pegman' = onMouseMove(pegman, position)
  /\ UNCHANGED Others

\* mouseup on the document
MouseUp ==
  /\ pegman.mounted
  /\ pegman.isDraggingRef
  /\ \E position \in Positions, styleLoaded \in BOOLEAN :
       pegman' = onMouseUp(pegman, position, styleLoaded)
  /\ UNCHANGED Others

\* mouseenter on the pegman element
MouseEnter ==
  /\ pegman.mounted
  /\ ~pegman.isDraggingRef
  /\ pegman' = [pegman EXCEPT !.pegmanState = "hover"]
  /\ UNCHANGED Others

\* mouseleave on the pegman element
MouseLeave ==
  /\ pegman.mounted
  /\ ~pegman.isDraggingRef
  /\ pegman' = [pegman EXCEPT !.pegmanState = "static"]
  /\ UNCHANGED Others

\* A render with a changed isDraggingOutside was committed: the cleanup of
\* the effect runs, then the effect subscribes the handlers of that render.
EffectRerun ==
  /\ pegman.mounted
  /\ pegman.isDraggingOutside # pegman.closure.isDraggingOutside
  /\ pegman' = [cleanup(pegman) EXCEPT
                  !.closure = [isDraggingOutside |-> pegman.isDraggingOutside]]
  /\ UNCHANGED Others

\* The component is unmounted: the cleanup of the effect runs.
Unmount ==
  /\ pegman.mounted
  /\ pegman' = [cleanup(pegman) EXCEPT !.mounted = FALSE]
  /\ UNCHANGED Others

NextPegman ==
  \/ MouseDown
  \/ MouseMove
  \/ MouseUp
  \/ MouseEnter
  \/ MouseLeave
  \/ EffectRerun
  \/ Unmount

SpecPegman == InitPegman /\ [][NextPegman]_vars

---------------------------------------------------------------------------
(* Vocabulary of the properties *)

\* Two numbers are equal (a === b): the two zeros are, NaN is equal to
\* nothing.
NumEq(a, b) ==
  /\ a.cls # "nan" /\ b.cls # "nan"
  /\ a.cls = b.cls
  /\ a.mag = b.mag
  /\ (a.neg = b.neg \/ IsZero(a))

\* Two coordinate pairs are equal: exact value equality on both components.
CoordEq(g, h) == NumEq(g[1], h[1]) /\ NumEq(g[2], h[2])

\* The fields of a point other than its coordinates.
Payload(p) ==
  [serialNumber |-> p.serialNumber, station |-> p.station, status |-> p.status,
   brand |-> p.brand, model |-> p.model, installationDate |-> p.installationDate]

\* The points of the returned array, and how many there are.
Returned == [k \in 1..Len(out) |-> heap[out[k]]]
M == Len(given)

\* How often the returned array holds the input point of index i.
TimesReturned(i) == Cardinality({k \in 1..Len(out) : out[k] = points[i]})

\* The input point of index i shares its coordinates with another input point.
SharesCoordinates(i) ==
  \E j \in 1..M : j # i /\ CoordEq(given[i].gps, given[j].gps)

\* The index, in the input array, of the returned point of index k.
InputIndex(k) == CHOOSE i \in 1..Len(points) : points[i] = out[k]

\* The index of the first input point that has the coordinates of input i.
FirstWithCoordinates(i) ==
  CHOOSE j \in 1..M :
    /\ CoordEq(given[j].gps, given[i].gps)
    /\ \A h \in 1..(j - 1) : ~CoordEq(given[h].gps, given[i].gps)

\* Sum from the left, starting at 0, of component c of the first n inputs.
RECURSIVE GivenSum(_, _)
GivenSum(n, c) ==
  IF n = 0 THEN Zero ELSE FAdd(GivenSum(n - 1, c), given[n].gps[c])

\* The mean of component c over all the inputs.
GivenMean(c) == FDiv(GivenSum(M, c), IntNum(M))

\* The largest magnitude among the input coordinates is at most that of a.
CoordinatesWithin(a) ==
  \A i \in 1..M : \A c \in 1..2 :
    IsFinite(given[i].gps[c]) /\ given[i].gps[c].mag <= a.mag

IsPositive(a) == a.cls # "nan" /\ ~a.neg /\ ~IsZero(a)

---------------------------------------------------------------------------
(* Properties *)

\* C1: duplicatedPoints returns exactly the input points whose coordinate
\* pair equals that of at least one other input point: each of them once, as
\* the very object that was given (a reference to it, its fields as given),
\* and no point whose coordinate pair is unique in the input.
C1_DuplicatedPointsExact ==
  call = "duplicatedPoints" =>
    /\ \A k \in 1..Len(out) : \E i \in 1..M : out[k] = points[i]
    /\ \A i \in 1..M :
         TimesReturned(i) = IF SharesCoordinates(i) THEN 1 ELSE 0
    /\ \A k \in 1..Len(out) : heap[out[k]] = given[InputIndex(k)]

\* A call of duplicatedPoints that returned some points and left some out.
C1_Witness ==
  /\ call = "duplicatedPoints"
  /\ Len(out) >= 2
  /\ \E i \in 1..M : TimesReturned(i) = 0
  /\ \E k, l \in 1..Len(out) :
       Returned[k].gps[1].neg /\ ~Returned[l].gps[1].neg
         /\ CoordEq(Returned[k].gps, Returned[l].gps)

\* C2 as stated: the returned array is a sub-sequence of the input, two
\* returned points are in the order they have in the input.
C2_AsStated_SubSequence ==
  call = "duplicatedPoints" =>
    \A k, l \in 1..Len(out) : k < l => InputIndex(k) < InputIndex(l)

\* C2 as amended: two returned points with equal coordinates are in the order
\* they have in the input, and two returned points with different
\* coordinates are in the order in which their coordinates first occur in
\* the input (the returned array is grouped by coordinates).
C2_OrderWithinAndBetweenGroups ==
  call = "duplicatedPoints" =>
    \A k, l \in 1..Len(out) :
      k < l =>
        IF CoordEq(Returned[k].gps, Returned[l].gps)
        THEN InputIndex(k) < InputIndex(l)
        ELSE FirstWithCoordinates(InputIndex(k))
               < FirstWithCoordinates(InputIndex(l))

\* duplicatedPoints returned two groups that are interleaved in the input.
C2_Witness ==
  /\ call = "duplicatedPoints"
  /\ \E k, l \in 1..Len(out) : k < l /\ InputIndex(k) > InputIndex(l)

\* C3 as stated: spiderfy places output point i (from 0) of m at
\* (centroidX + r_i * cos(angle_i), centroidY + r_i * sin(angle_i)) with
\* angle_i = i * (2 * pi / m) and r_i = radius + i * (radius / m), and two
\* points at (0, 0) with radius 10 come out at (10, 0) and (-15, 0).
C3_AsStated_LayoutAndExample ==
  call = "spiderfy" =>
    /\ \A k \in 1..Len(out) :
         Returned[k].gps =
           <<FAdd(GivenMean(1),
                  FMul(FAdd(arg, FMul(IntNum(k - 1), FDiv(arg, IntNum(M)))),
                       Cos(FMul(IntNum(k - 1),
                                FDiv(FMul(IntNum(2), PI), IntNum(M)))))),
             FAdd(GivenMean(2),
                  FMul(FAdd(arg, FMul(IntNum(k - 1), FDiv(arg, IntNum(M)))),
                       Sin(FMul(IntNum(k - 1),
                                FDiv(FMul(IntNum(2), PI), IntNum(M))))))>>
    /\ ( /\ M = 2
         /\ \A i \in 1..M : CoordEq(given[i].gps, <<Zero, Zero>>)
         /\ arg = IntNum(10) )
       => /\ CoordEq(Returned[1].gps, <<IntNum(10), Zero>>)
          /\ CoordEq(Returned[2].gps, <<IntNum(-15), Zero>>)

\* C3 as amended: the same layout, the operations being those of the number
\* type and pi being Math.PI; two points at (0, 0) with radius 10 come out at
\* (10, 0) and (-15, 15 * sin(Math.PI)), whose second component is a small
\* positive number and not 0, because Math.PI is not pi.
C3_LayoutAndExample ==
  call = "spiderfy" =>
    /\ \A k \in 1..Len(out) :
         Returned[k].gps =
           <<FAdd(GivenMean(1),
                  FMul(FAdd(arg, FMul(IntNum(k - 1), FDiv(arg, IntNum(M)))),
                       Cos(FMul(IntNum(k - 1),
                                FDiv(FMul(IntNum(2), PI), IntNum(M)))))),
             FAdd(GivenMean(2),
                  FMul(FAdd(arg, FMul(IntNum(k - 1), FDiv(arg, IntNum(M)))),
                       Sin(FMul(IntNum(k - 1),
                                FDiv(FMul(IntNum(2), PI), IntNum(M))))))>>
    /\ ( /\ M = 2
         /\ \A i \in 1..M : CoordEq(given[i].gps, <<Zero, Zero>>)
         /\ arg = IntNum(10) )
       => /\ CoordEq(Returned[1].gps, <<IntNum(10), Zero>>)
          /\ CoordEq(Returned[2].gps,
                     <<IntNum(-15), FMul(IntNum(15), Sin(PI))>>)
          /\ IsPositive(Returned[2].gps[2])
          /\ Returned[2].gps[2].mag < Quantum

\* spiderfy was called on two points at (0, 0) with radius 10.
C3_Witness ==
  /\ call = "spiderfy"
  /\ M = 2
  /\ \A i \in 1..M : CoordEq(given[i].gps, <<Zero, Zero>>)
  /\ arg = IntNum(10)
  /\ Len(out) = 2

\* C4: the centre spiderfy uses is the component-wise mean of all the input
\* points, (sum of the component over the whole array) / m.  The first
\* returned point shows it: its angle is 0 and its ring radius is radius, so
\* it lies at (centre X + radius, centre Y).
C4_CentreIsMeanOfAllPoints ==
  (call = "spiderfy" /\ M >= 1) =>
    /\ Len(out) >= 1
    /\ Returned[1].gps[1] = FAdd(GivenMean(1), arg)
    /\ NumEq(Returned[1].gps[2], GivenMean(2))
    /\ IsZero(arg) => NumEq(Returned[1].gps[1], GivenMean(1))

\* spiderfy was called on points whose last one moves the mean.
C4_Witness ==
  /\ call = "spiderfy"
  /\ M >= 3
  /\ ~NumEq(GivenMean(1), FDiv(GivenSum(M - 1, 1), IntNum(M)))
  /\ ~NumEq(GivenMean(2), FDiv(GivenSum(M - 1, 2), IntNum(M)))
  /\ ~NumEq(GivenMean(1), given[1].gps[1])

\* No two returned points are at the same position.
PairwiseDistinct ==
  \A k, l \in 1..Len(out) :
    k # l => ~CoordEq(Returned[k].gps, Returned[l].gps)

RadiusNotNegligible(a) ==
  /\ IsPositive(a) /\ IsFinite(a) /\ a.mag >= Quantum
  /\ IsFinite(FMul(IntNum(4), a))
  /\ CoordinatesWithin(a)

C6_Cardinality ==
  /\ call = "spiderfy" =>
       /\ Len(out) = M
       /\ \A k \in 1..Len(out) :
            /\ Returned[k].serialNumber = given[k].serialNumber
            /\ Returned[k].gps =
                 gpsAt(GivenMean(1), GivenMean(2),
                       FAdd(arg, FMul(IntNum(k - 1), FDiv(arg, IntNum(M)))),
                       FMul(IntNum(k - 1), FDiv(FMul(IntNum(2), PI), IntNum(M))))
  /\ call = "duplicatedPoints" => Len(out) <= M

\* spiderfy returned four points made from points of different fields, or
\* duplicatedPoints returned fewer points than it was given.
C6_Witness ==
  \/ /\ call = "spiderfy"
     /\ Len(out) = 4
     /\ given[1].serialNumber # given[4].serialNumber
  \/ /\ call = "duplicatedPoints"
     /\ 0 < Len(out) /\ Len(out) < M

\* C7: every field other than the coordinates of a point spiderfy returns
\* (serialNumber, station, status, brand, model, installationDate) equals
\* the field of the input point of the same index.
C7_SpiderfyKeepsFields ==
  call = "spiderfy" =>
    \A k \in 1..Len(out) :
      /\ k <= M
      /\ Returned[k].serialNumber = given[k].serialNumber
      /\ Returned[k].station = given[k].station
      /\ Returned[k].status = given[k].status
      /\ Returned[k].brand = given[k].brand
      /\ Returned[k].model = given[k].model
      /\ Returned[k].installationDate = given[k].installationDate

\* spiderfy moved points whose fields differ.
C7_Witness ==
  /\ call = "spiderfy"
  /\ Len(out) >= 2
  /\ Payload(given[1]) # Payload(given[2])
  /\ Returned[1].gps # given[1].gps

\* C8: spiderfy, jitterPoints and duplicatedPoints do not mutate their
\* input: after the call the input array has the length and order it had and
\* every input point the coordinates and fields it had; the points spiderfy
\* and jitterPoints return are new objects, none of them an input point.
C8_InputNotMutated ==
  call # "none" =>
    /\ points = Refs(M)
    /\ \A i \in 1..M : heap[points[i]] = given[i]
    /\ call \in {"spiderfy", "jitterPoints"} =>
         \A k \in 1..Len(out) : \A i \in 1..M : out[k] # points[i]

\* spiderfy or jitterPoints returned points whose coordinates all differ
\* from those given.
C8_Witness ==
  /\ call \in {"spiderfy", "jitterPoints"}
  /\ M >= 2
  /\ \A k \in 1..Len(out) : k <= M /\ Returned[k].gps # given[k].gps

\* C9: jitterPoints breaks exact ties: two input points with identical
\* coordinates come out with different coordinates.
C9_JitterBreaksTies ==
  call = "jitterPoints" =>
    \A k, l \in 1..Len(out) :
      (k # l /\ k <= M /\ l <= M /\ CoordEq(given[k].gps, given[l].gps))
        => ~CoordEq(Returned[k].gps, Returned[l].gps)

\* C10: jitterPoints returns a list of the same length and order in which
\* point i has the coordinates (lon_i * jitter, lat_i * jitter) and every
\* other field of input point i.
C10_JitterScales ==
  call = "jitterPoints" =>
    /\ Len(out) = M
    /\ \A k \in 1..Len(out) :
         /\ Returned[k].gps =
              <<FMul(given[k].gps[1], arg), FMul(given[k].gps[2], arg)>>
         /\ Payload(Returned[k]) = Payload(given[k])

\* jitterPoints scaled points of different coordinates and fields by 3.
C10_Witness ==
  /\ call = "jitterPoints"
  /\ arg = IntNum(3)
  /\ Len(out) >= 2
  /\ Payload(given[1]) # Payload(given[2])
  /\ Returned[1].gps = <<IntNum(3), Zero>>
  /\ Returned[2].gps = <<IntNum(96), IntNum(96)>>

---------------------------------------------------------------------------
(* Properties of generateRandomPoints                                      *)
(***************************************************************************)

\* The count of millionths of a number with six decimals.
Signed(a) == IF a.neg THEN -a.mag ELSE a.mag

\* The coordinates [lon, lat] lie within MURCIA_COORDINATES, bounds included.
InsideMurcia(gps) ==
  /\ IsFinite(gps[1]) /\ lonMin <= Signed(gps[1]) /\ Signed(gps[1]) <= lonMax
  /\ IsFinite(gps[2]) /\ latMin <= Signed(gps[2]) /\ Signed(gps[2]) <= latMax

\* The points of the array generateRandomPoints builds, in order.
Generated == Deref(heap, points)

\* generateRandomPoints has returned its array.
GeneratorReturned(v) == variant = v /\ genPc = "returned"

\* C11: every point produced by the generateRandomPoints that appends two
\* duplicated points has lon within [-1.6, -0.8] and lat within [37.5, 38.2],
\* for every numberOfPoints >= 0 and every outcome of the random draws.
C11_DuplicatesVariantInsideMurcia ==
  GeneratorReturned("duplicates") /\ numberOfPoints >= 0
    => \A k \in 1..Len(Generated) : InsideMurcia(Generated[k].gps)

\* C12: every point produced by the plain generateRandomPoints has lon within
\* [-1.6, -0.8] and lat within [37.5, 38.2], bounds included, after the
\* rounding to six decimals, for every outcome of the random draws.
C12_PlainVariantInsideMurcia ==
  variant = "plain"
    => \A k \in 1..Len(Generated) : InsideMurcia(Generated[k].gps)

\* C12 witness: the plain variant returned a point whose draws were the
\* largest ones: both coordinates were rounded up to the upper bounds.
C12_Witness ==
  /\ GeneratorReturned("plain")
  /\ \E k \in 1..Len(Generated) :
       /\ Signed(Generated[k].gps[1]) = lonMax
       /\ Signed(Generated[k].gps[2]) = latMax
  /\ \E k \in 1..Len(Generated) :
       /\ Signed(Generated[k].gps[1]) = lonMin + 400000
       /\ Signed(Generated[k].gps[2]) = latMin

\* C13: for numberOfPoints = n >= 0 the variant with duplicated points
\* returns exactly n + 2 points, their serialNumbers are 1..n+2 in order,
\* the last two have the same coordinates, and for n = 0 the array holds
\* exactly the two duplicated points.
C13_DuplicatesVariantShape ==
  GeneratorReturned("duplicates") /\ numberOfPoints >= 0
    => /\ Len(Generated) = numberOfPoints + 2
       /\ \A k \in 1..Len(Generated) : Generated[k].serialNumber = k
       /\ CoordEq(Generated[numberOfPoints + 1].gps,
                  Generated[numberOfPoints + 2].gps)
       /\ Generated[numberOfPoints + 1].station = "Station-duplicated-1"
       /\ Generated[numberOfPoints + 2].station = "Station-duplicated-2"
       /\ \A k \in 1..numberOfPoints : Generated[k].station = StationName(k)

\* C13 witness: the variant with duplicated points returned for n = 2, and
\* for the random points the draws differed.
C13_Witness ==
  /\ GeneratorReturned("duplicates")
  /\ numberOfPoints = 2
  /\ Len(Generated) = 4
  /\ ~CoordEq(Generated[1].gps, Generated[2].gps)

\* C14: for numberOfPoints = n >= 0 the plain variant returns exactly n
\* points with serialNumbers 1..n in order; for n = 0 the array is empty.
C14_PlainVariantShape ==
  GeneratorReturned("plain") /\ numberOfPoints >= 0
    => /\ Len(Generated) = numberOfPoints
       /\ \A k \in 1..Len(Generated) : Generated[k].serialNumber = k

\* C14 witness: the plain variant returned two points.
C14_Witness ==
  /\ GeneratorReturned("plain")
  /\ numberOfPoints = 2
  /\ Len(Generated) = 2

\* C15: with a negative numberOfPoints neither generateRandomPoints returns
\* an array: the call fails (InvalidArgument).
C15_NegativeCountNeverReturns ==
  ~(genPc = "returned" /\ numberOfPoints < 0)

---------------------------------------------------------------------------
(* Properties of spiderfy and duplicatedPoints at the edges of their       *)
(* inputs                                                                  *)
(***************************************************************************)

\* The radius or a coordinate of an input point is NaN or infinite.
NonFiniteInput ==
  \/ ~IsFinite(arg)
  \/ \E j \in 1..M : \E c \in 1..2 : ~IsFinite(given[j].gps[c])

\* A coordinate of a returned point is NaN or infinite.
NonFiniteOutput ==
  \E k \in 1..Len(out) : \E c \in 1..2 : ~IsFinite(Returned[k].gps[c])

\* C16: spiderfy called with a radius or an input coordinate that is NaN or
\* infinite is rejected (InvalidArgument): it never returns an array, and
\* so never returns a point with a NaN or infinite coordinate.
C16_NonFiniteInputNeverReturned ==
  ~(call = "spiderfy" /\ NonFiniteInput /\ NonFiniteOutput)

\* C17: for an empty input array spiderfy (with any radius) and
\* duplicatedPoints return an empty array: there is no error, no point is
\* made, and the sum of no coordinates is not divided by the length zero
\* into a coordinate.
C17_EmptyInEmptyOut ==
  call \in {"spiderfy", "duplicatedPoints"} /\ M = 0
    => out = <<>> /\ heap = <<>>

\* C17 witness: spiderfy returned for an empty array and the radius NaN.
C17_Witness ==
  /\ call = "spiderfy"
  /\ M = 0
  /\ arg = NaN
  /\ out = <<>>

\* C19: spiderfy with radius 0 places every output point on the centroid of
\* the input points, for every number m >= 1 of points.
C19_ZeroRadiusOnCentroid ==
  call = "spiderfy" /\ IsZero(arg) /\ M >= 1
    => \A k \in 1..Len(out) :
         CoordEq(Returned[k].gps, <<GivenMean(1), GivenMean(2)>>)

\* C19 witness: spiderfy returned with radius 0 for three points that do
\* not all share their coordinates, and the outputs all do.
C19_Witness ==
  /\ call = "spiderfy"
  /\ IsZero(arg)
  /\ M = 3
  /\ Len(out) = 3
  /\ ~CoordEq(given[1].gps, given[2].gps)
  /\ CoordEq(Returned[1].gps, Returned[3].gps)

\* C20: duplicatedPoints applied to the array of the generateRandomPoints
\* that appends two duplicated points returns a non-empty array that holds
\* both of them (serialNumber n + 1 and n + 2), for every n >= 0.
C20_DuplicatedPointsFindsForcedPair ==
  call = "duplicatedPoints" /\ variant = "duplicates" /\ numberOfPoints >= 0
    => /\ out # <<>>
       /\ \E k \in 1..Len(out) :
            /\ Returned[k].serialNumber = numberOfPoints + 1
            /\ Returned[k].station = "Station-duplicated-1"
       /\ \E k \in 1..Len(out) :
            /\ Returned[k].serialNumber = numberOfPoints + 2
            /\ Returned[k].station = "Station-duplicated-2"

\* C20 witness: duplicatedPoints returned exactly the two duplicated points
\* out of the four generated for n = 2.
C20_Witness ==
  /\ call = "duplicatedPoints"
  /\ variant = "duplicates"
  /\ numberOfPoints = 2
  /\ Len(out) = 2
  /\ out = <<3, 4>>

---------------------------------------------------------------------------
(* Further properties of generateRandomPoints, spiderfy, duplicatedPoints  *)
(***************************************************************************)

\* C21: every point either generateRandomPoints puts into its array, the
\* two duplicated points included, has a status out of green, yellow, red,
\* for every outcome of the random draws.
C21_StatusInFixedSet ==
  variant \in {"duplicates", "plain"}
    => \A k \in 1..Len(Generated) :
         Generated[k].status \in {"green", "yellow", "red"}

\* C21 witness: a generateRandomPoints returned random points whose status
\* draws were the largest one and the middle one.
C21_Witness ==
  /\ genPc = "returned"
  /\ numberOfPoints = 2
  /\ Generated[1].status = "yellow"
  /\ Generated[2].status = "red"

\* Two numbers are the same value: equal, or both NaN.
SameNumber(a, b) == NumEq(a, b) \/ (a.cls = "nan" /\ b.cls = "nan")

\* Two positions are the same.
SamePosition(g, h) == SameNumber(g[1], h[1]) /\ SameNumber(g[2], h[2])

\* The array pts with the elements of the indices a and b exchanged.
Swap(pts, a, b) ==
  [k \in 1..Len(pts) |->
    IF k = a THEN pts[b] ELSE IF k = b THEN pts[a] ELSE pts[k]]

\* What spiderfy returns for the input array with a and b exchanged.
SpiderfySwapped(a, b) == spiderfy(heap, Swap(points, a, b), arg)

\* The centre spiderfy computes for the input with a and b exchanged is the
\* centre it computed for the input.
SameCentreSwapped(a, b) ==
  \A c \in 1..2 :
    SameNumber(center(heap, Swap(points, a, b), c), center(heap, points, c))

\* C22 as stated: the slot spiderfy assigns is positional, so permuting the
\* input (here: exchanging any two input points) leaves the list of output
\* positions unchanged, and a point that changes index receives the
\* position of its new index.
C22_AsStated_PermutationKeepsPositions ==
  call = "spiderfy"
    => \A a \in 1..M : \A b \in (a + 1)..M :
         LET swapped == SpiderfySwapped(a, b)
         IN  /\ \A k \in 1..M : SamePosition(swapped[k].gps, Returned[k].gps)
             /\ Payload(swapped[a]) = Payload(given[b])
             /\ Payload(swapped[b]) = Payload(given[a])

\* C22: the slot spiderfy assigns is positional: exchanging two input
\* points exchanges the fields found at their two output indices, and
\* leaves the list of output positions unchanged whenever the centre
\* computed for the exchanged input is the centre computed for the input
\* (the sums are taken in input order and rounded at every step, so the
\* computed centre can depend on the order).
C22_PositionalSlots ==
  call = "spiderfy"
    => \A a \in 1..M : \A b \in (a + 1)..M :
         LET swapped == SpiderfySwapped(a, b)
         IN  /\ SameCentreSwapped(a, b)
                  => \A k \in 1..M :
                       SamePosition(swapped[k].gps, Returned[k].gps)
             /\ Payload(swapped[a]) = Payload(given[b])
             /\ Payload(swapped[b]) = Payload(given[a])

\* C22 witness: spiderfy returned for three points of which the first two
\* differ in fields and coordinates; exchanging them keeps the centre, and
\* their two slots are different positions.
C22_Witness ==
  /\ call = "spiderfy"
  /\ M = 3
  /\ Payload(given[1]) # Payload(given[2])
  /\ ~CoordEq(given[1].gps, given[2].gps)
  /\ SameCentreSwapped(1, 2)
  /\ ~SamePosition(Returned[1].gps, Returned[2].gps)
  /\ SamePosition(SpiderfySwapped(1, 2)[1].gps, Returned[1].gps)

---------------------------------------------------------------------------
(* Properties of CarlosMockup's processedPoints                            *)
(***************************************************************************)

\* Two coordinates of raw points are the same: both null, or equal numbers.
SameRawNumber(a, b) ==
  IF a.cls = "null" \/ b.cls = "null" THEN a.cls = b.cls ELSE NumEq(a, b)

\* Two points have the same (longitude, latitude) pair.
SameLonLat(p, q) ==
  /\ SameRawNumber(p.longitude, q.longitude)
  /\ SameRawNumber(p.latitude, q.latitude)

\* The raw point of index j is usable: longitude and latitude are not 0
\* and it has a Timestamp.
UsableRaw(j) ==
  /\ ~(given[j].longitude.cls = "fin" /\ given[j].longitude.mag = 0)
  /\ ~(given[j].latitude.cls = "fin" /\ given[j].latitude.mag = 0)
  /\ given[j].Timestamp \notin {"", NullTimestamp}

\* The raw point of index j is the first raw point with its coordinates.
FirstRawOfGroup(j) ==
  \A h \in 1..(j - 1) : ~SameLonLat(given[h], given[j])

\* The raw point of index j is the first usable raw point with its
\* coordinates.
FirstUsableOfGroup(j) ==
  /\ UsableRaw(j)
  /\ \A h \in 1..(j - 1) : UsableRaw(h) => ~SameLonLat(given[h], given[j])

\* The returned list is made of the raw points whose indices are in kept,
\* in input order, with the ids 0, 1, ... in list order.
ProcessedFrom(kept) ==
  /\ Len(out) = Cardinality(kept)
  /\ \A k \in 1..Len(out) :
       /\ Returned[k].id = k - 1
       /\ \E j \in kept :
            /\ Cardinality({h \in kept : h <= j}) = k
            /\ Returned[k].tag = given[j].entityName
            /\ Returned[k].timestamp = given[j].Timestamp
            /\ Returned[k].gnss = given[j].gnss
            /\ Returned[k].longitude = given[j].longitude
            /\ Returned[k].latitude = given[j].latitude
            /\ Returned[k].coordinates = <<given[j].longitude, given[j].latitude>>

\* No two points of the returned list have the same (longitude, latitude).
ProcessedDistinct ==
  \A k \in 1..Len(out) : \A l \in (k + 1)..Len(out) :
    ~SameLonLat(Returned[k], Returned[l])

\* C23 as stated: the list processedPoints builds has no two points with
\* the same (longitude, latitude); of each group of raw points with equal
\* coordinates only the first in input order is kept, in input order, and
\* the ids are 0, 1, ..., k-1 in list order.
C23_AsStated_FirstOfEachRawGroup ==
  call = "processedPoints"
    => /\ ProcessedDistinct
       /\ ProcessedFrom({j \in 1..M : FirstRawOfGroup(j)})

\* C23: the list processedPoints builds has no two points with the same
\* (longitude, latitude); of each group of usable raw points (longitude and
\* latitude not 0, Timestamp neither empty nor null) with equal coordinates
\* only the first in input order is kept, raw points that are not usable
\* are dropped, the kept points are in input order, and the ids are
\* 0, 1, ..., k-1 in list order.
C23_FirstUsableOfEachGroup ==
  call = "processedPoints"
    => /\ ProcessedDistinct
       /\ ProcessedFrom({j \in 1..M : FirstUsableOfGroup(j)})

\* C23 witness: processedPoints was computed from four raw points: one
\* without Timestamp, two usable ones with its coordinates, and one more;
\* the second and the fourth were kept, with the ids 0 and 1.
C23_Witness ==
  /\ call = "processedPoints"
  /\ M = 4
  /\ ~UsableRaw(1)
  /\ SameLonLat(given[1], given[2])
  /\ SameLonLat(given[2], given[3])
  /\ UsableRaw(2) /\ UsableRaw(3) /\ UsableRaw(4)
  /\ Len(out) = 2
  /\ Returned[1].tag = given[2].entityName
  /\ Returned[2].tag = given[4].entityName
  /\ Returned[2].id = 1

---------------------------------------------------------------------------
(* Further properties of duplicatedPoints and spiderfy                     *)
(***************************************************************************)

\* C24: duplicatedPoints is idempotent: applied to the array it returned,
\* it returns the same points in the same order.
C24_DuplicatedPointsIdempotent ==
  call = "duplicatedPoints" => duplicatedPoints(heap, out) = out

\* C24 witness: duplicatedPoints returned two groups that are interleaved
\* in the input, so that the returned array is not in input order, and a
\* second application returns it as it is.
C24_Witness ==
  /\ call = "duplicatedPoints"
  /\ Len(out) = 4
  /\ ~CoordEq(Returned[1].gps, Returned[4].gps)
  /\ \E k, l \in 1..Len(out) : k < l /\ InputIndex(k) > InputIndex(l)
  /\ duplicatedPoints(heap, out) = out

\* C25: the array duplicatedPoints returns is grouped by coordinates:
\* points with equal coordinates are contiguous, the groups are in the
\* order in which their coordinates first occur in the input, the points of
\* a group are in input order, and the length of the array is never 1.
C25_GroupedByCoordinates ==
  call = "duplicatedPoints"
    => /\ \A k, l \in 1..Len(out) :
            k < l /\ CoordEq(Returned[k].gps, Returned[l].gps)
              => /\ \A j \in k..l : CoordEq(Returned[j].gps, Returned[k].gps)
                 /\ InputIndex(k) < InputIndex(l)
       /\ \A k, l \in 1..Len(out) :
            k < l /\ ~CoordEq(Returned[k].gps, Returned[l].gps)
              => \E j \in 1..M :
                   /\ CoordEq(given[j].gps, Returned[k].gps)
                   /\ \A h \in 1..j : ~CoordEq(given[h].gps, Returned[l].gps)
       /\ Len(out) # 1

\* C25 witness: duplicatedPoints returned two groups of two points for an
\* input in which the first point of the second group stands before the
\* last point of the first.
C25_Witness ==
  /\ call = "duplicatedPoints"
  /\ M = 4
  /\ Len(out) = 4
  /\ CoordEq(Returned[1].gps, Returned[2].gps)
  /\ ~CoordEq(Returned[2].gps, Returned[3].gps)
  /\ InputIndex(2) > InputIndex(3)

\* a < b, for finite numbers.
NumLess(a, b) == IsFinite(a) /\ IsFinite(b) /\ Signed(a) < Signed(b)

\* The ring radius spiderfy uses for the output index k (from 1).
RingRadius(k) == rAt(k - 1, M, arg)

\* The ring radii start at the radius and are strictly increasing.
RingRadiiIncrease ==
  /\ NumEq(RingRadius(1), arg)
  /\ \A k \in 1..(M - 1) : NumLess(RingRadius(k), RingRadius(k + 1))

\* radius <= r_i < 2 * radius, for every index.
RingRadiiBelowTwice ==
  \A k \in 1..M :
    /\ ~NumLess(RingRadius(k), arg)
    /\ NumLess(RingRadius(k), FMul(IntNum(2), arg))

\* No returned point is farther than twice the radius from the mean of the
\* input points (squared distances, in quanta).
WithinTwiceRadius ==
  \A k \in 1..Len(out) :
    LET dx == Signed(Returned[k].gps[1]) - Signed(GivenMean(1))
        dy == Signed(Returned[k].gps[2]) - Signed(GivenMean(2))
    IN  /\ IsFinite(Returned[k].gps[1]) /\ IsFinite(Returned[k].gps[2])
        /\ dx * dx + dy * dy <= (2 * arg.mag) * (2 * arg.mag)

\* The radius a is positive, at least 1 and small enough that 4 * a does
\* not overflow.
RadiusAtLeastOne(a) ==
  /\ IsPositive(a) /\ IsFinite(a) /\ a.mag >= Quantum
  /\ IsFinite(FMul(IntNum(4), a))

SingleCentre == <<GivenMean(1), GivenMean(2)>>

\* Every returned point is laid out around the one centre g: output index
\* k is at g plus its ring radius in the direction of its angle.
LaidOutAround(g) ==
  \A k \in 1..Len(out) :
    SamePosition(Returned[k].gps,
                 gpsAt(g[1], g[2], RingRadius(k), angleAt(k - 1, M)))

\* All input points have the same coordinates.
AllCoincide == \A j \in 1..M : CoordEq(given[j].gps, given[1].gps)

\* The numbers a and b differ by at most the rounding of a few operations.
NearlyEqual(a, b) ==
  /\ IsFinite(a) /\ IsFinite(b)
  /\ (Signed(a) - Signed(b)) * Pow2(Precision - 2) <= b.mag
  /\ (Signed(b) - Signed(a)) * Pow2(Precision - 2) <= b.mag

\* C27 as stated: spiderfy lays all output points out around the single
\* mean of all input coordinates, also when the input holds points of two
\* or more coincidence groups, and not around each group's own
\* coordinates; when all input points coincide at c they are laid out
\* around c.
C27_AsStated_SingleCluster ==
  call = "spiderfy" /\ M >= 1
    => /\ LaidOutAround(SingleCentre)
       /\ ~AllCoincide
            => \E j \in 1..M : ~CoordEq(given[j].gps, SingleCentre)
       /\ AllCoincide => CoordEq(SingleCentre, given[1].gps)

\* C27: spiderfy lays all output points out around the single computed
\* mean of all input coordinates, also when the input holds points of two
\* or more coincidence groups (the mean then differs from the coordinates
\* of one group at least); when all input points coincide at c the mean is
\* c up to the rounding of the sum and the division, and exactly c when
\* there are one or two points.
C27_SingleClusterAroundComputedMean ==
  call = "spiderfy" /\ M >= 1
    => /\ LaidOutAround(SingleCentre)
       /\ ~AllCoincide
            => \E j \in 1..M : ~CoordEq(given[j].gps, SingleCentre)
       /\ AllCoincide
            => /\ NearlyEqual(SingleCentre[1], given[1].gps[1])
               /\ NearlyEqual(SingleCentre[2], given[1].gps[2])
               /\ M <= 2 => CoordEq(SingleCentre, given[1].gps)

\* C27 witness: spiderfy returned, for radius 10, three points made from
\* two coinciding points and a third one elsewhere; they are laid out
\* around the mean, which is at none of the three.
C27_Witness ==
  /\ call = "spiderfy"
  /\ M = 3
  /\ arg = IntNum(10)
  /\ CoordEq(given[1].gps, given[2].gps)
  /\ ~CoordEq(given[1].gps, given[3].gps)
  /\ \A j \in 1..M : ~CoordEq(given[j].gps, SingleCentre)
  /\ LaidOutAround(SingleCentre)
  /\ ~LaidOutAround(given[1].gps)

---------------------------------------------------------------------------
(* Properties of PegmanContainer                                           *)
(***************************************************************************)

\* C28: after any sequence of mousedown, mousemove and mouseup that ends
\* with the drag finished (mouseup handled), every layer of the map has the
\* line-color it had before the first mousedown, also when a mousedown
\* arrived while the roads were highlighted or a layer had no line-color.
C28_RoadColorsRestoredAfterDrag ==
  pegman.dragEnded /\ ~pegman.isDraggingRef
    => pegman.lineColor = pegman.colorsBefore

\* C29: while a drag is in progress (isDraggingRef is true) document.body
\* keeps pointer-events none, user-select none and cursor grabbing: a
\* re-run of the effect does not clear them.
C29_BodyStylesKeptWhileDragging ==
  pegman.mounted /\ pegman.isDraggingRef => pegman.body = BodyDragging

\* C30: when a drag ends, onDropOnMap is called exactly once, with the map
\* coordinates of the release position, if the latest mousemove saw the
\* pointer on the map canvas and there is a map instance, and is not called
\* otherwise, for every interleaving of mousemove, effect re-run and
\* mouseup.
C30_DropDecidedByLatestMouseMove ==
  pegman.dragEnded
    => pegman.dropped =
         IF pegman.seenOnMap /\ pegman.mapInstance # "null"
         THEN <<screenToMapCoordinates(pegman.releasedAt, pegman.mapInstance)>>
         ELSE <<>>

====
